---- MODULE Spec2Model ----
(***************************************************************************)
(* Model of the anywhere-app backend request handlers that keep the        *)
(* hangout membership table and the wishlist / visit ledgers.              *)
(*                                                                         *)
(* Every handler opens its own database session (get_db) and talks to one  *)
(* shared PostgreSQL database.  A handler is modelled as the sequence of   *)
(* SQL statements it issues; statements of different requests interleave   *)
(* (several server processes share the database, READ COMMITTED).  A       *)
(* handler that issues one writing statement is a single action.           *)
(***************************************************************************)
EXTENDS Integers, FiniteSets, Sequences, TLC

\* ---------------------------------------------------------------- bounds
NumUsers == 2
NumReq == 2
MaxHangouts == 1
MaxCap == 2
MaxPins == 1
MaxPosts == 1
MaxFailed == 4
\* auth.py:26
MAX_LOGIN_ATTEMPTS == 3

Users == 1..NumUsers
Requests == 1..NumReq
HangoutIds == 1..MaxHangouts
PinIds == 1..MaxPins
PostIds == 1..MaxPosts
\* user ids and emails a request may name: those of the registered accounts
\* and one that belongs to no account
UserIds == 1..(NumUsers + 1)

\* Optional[int]: None is the empty tuple, a value n is <<n>>
None == << >>
Some(n) == << n >>
IsNone(x) == x = << >>
Val(x) == x[1]
\* max_participants values a client may send in HangoutRequest
MaxInputs == {None} \cup {Some(n) : n \in 0..MaxCap}

\* one field of a JSON request body: left out, sent as null, or sent with a value
Omitted == << "omitted" >>
Null == << "null" >>
Value(v) == << "value", v >>
IsValue(f) == f[1] = "value"
\* bodies a client may send to PUT /hangouts/{id}; title, pin_id, start_time,
\* duration and catering are left out of every body
Descriptions == {"", "d"}
UpdateBodies ==
    [description : {Omitted, Null} \cup {Value(d) : d \in Descriptions},
     expected_participants : {Omitted, Null, Value(1)},
     max_participants : {Omitted, Null} \cup {Value(n) : n \in 0..MaxCap}]
NoBody == [description |-> Omitted, expected_participants |-> Omitted, max_participants |-> Omitted]

VARIABLES
    hangouts,              \* table hangouts: id -> row (ids 1..Len)
    hangout_participants,  \* table hangout_participants: (hangout_id, user_id) -> number of rows
    pins,                  \* table pins: set of ids
    wishlists,             \* table wishlists: (user_id, pin_id) -> number of rows
    visits,                \* table visits: (user_id, pin_id) -> number of rows
    req,                   \* per request slot: position of the handler and its session's reads
    users,                 \* table users: id -> suspension columns of the account
    follows,               \* table follows: (follower_id, following_id) -> number of rows
    posts,                 \* table posts: id -> row (ids 1..Len)
    post_likes,            \* table post_likes: (user_id, post_id) -> number of rows
    login_attempts,        \* redis: email -> the entry under login_attempts:<email>
    failed,                \* history: email -> failed logins recorded since the last
                           \* successful login or expiry of the entry
    last,                  \* the response most recently returned to a client
    pre                    \* history: the store at the start of a request that ran with no other in flight

vars == << hangouts, hangout_participants, pins, wishlists, visits,
          users, follows, posts, post_likes, login_attempts, failed, req, last, pre >>
\* the tables of the user, follow and post routes and the redis entries
social == << users, follows, posts, post_likes, login_attempts, failed >>
store == << hangouts, hangout_participants, pins, wishlists, visits, social >>

\* the persistent store as one value
Store == [hangouts |-> hangouts, hangout_participants |-> hangout_participants,
          pins |-> pins, wishlists |-> wishlists, visits |-> visits]
\* the tables of the user, follow and post routes and the redis entries as one value
Social == [users |-> users, follows |-> follows, posts |-> posts,
           post_likes |-> post_likes, login_attempts |-> login_attempts, failed |-> failed]
NoSnap == [none |-> TRUE]

\* a registered account as auth.py create_user stores it (models.py:56-58)
NewUser == [is_suspended |-> FALSE, suspended_until |-> None, until_passed |-> FALSE]
\* no entry under the redis key
NoKey == [present |-> FALSE, count |-> 0, locked |-> FALSE]

\* a request slot: max holds a value the session has read (max_participants,
\* like_count, the redis entry), item a flag it holds
Idle == [pc |-> "idle", op |-> "none", caller |-> 0, arg |-> 0, max |-> None, item |-> FALSE]
NoResponse == [op |-> "none", caller |-> 0, arg |-> 0, max |-> None, result |-> "none", flag |-> FALSE,
               items |-> {}, body |-> NoBody]

IsIdle(s) == req[s].pc = "idle"
Alone(s) == \A t \in Requests \ {s} : IsIdle(t)
AllIdle == \A t \in Requests : IsIdle(t)

\* number of rows of a table whose first (second) key column equals h
RECURSIVE SumRows(_, _, _)
SumRows(tbl, h, us) ==
    IF us = {} THEN 0
    ELSE LET u == CHOOSE x \in us : TRUE
         IN tbl[<<h, u>>] + SumRows(tbl, h, us \ {u})
\* len(hangout.participants): the rows of hangout_participants with hangout_id = h
CountParticipants(tbl, h) == SumRows(tbl, h, Users)

Init ==
    /\ hangouts = << >>
    /\ hangout_participants = [k \in HangoutIds \X Users |-> 0]
    /\ pins = {}
    /\ wishlists = [k \in Users \X PinIds |-> 0]
    /\ visits = [k \in Users \X PinIds |-> 0]
    /\ users = [u \in Users |-> NewUser]
    /\ follows = [k \in Users \X Users |-> 0]
    /\ posts = << >>
    /\ post_likes = [k \in Users \X PostIds |-> 0]
    /\ login_attempts = [e \in UserIds |-> NoKey]
    /\ failed = [e \in UserIds |-> 0]
    /\ req = [s \in Requests |-> Idle]
    /\ last = NoResponse
    /\ pre = NoSnap

\* a request begins in slot s: remember the store if nothing else is in flight
Begin(s) ==
    /\ IsIdle(s)
    /\ pre' = IF Alone(s) THEN Store ELSE NoSnap

\* the same for a request on the user, follow, post or login routes
BeginSocial(s) ==
    /\ IsIdle(s)
    /\ pre' = IF Alone(s) THEN Social ELSE NoSnap

\* the handler in slot s returns (or raises) and its session is closed
\* items is the list a listing handler returns, body the JSON body the request carried
RespondWith(s, op, caller, arg, max, result, flag, items, body) ==
    /\ last' = [op |-> op, caller |-> caller, arg |-> arg, max |-> max,
                result |-> result, flag |-> flag, items |-> items, body |-> body]
    /\ req' = [req EXCEPT ![s] = Idle]
Respond(s, op, caller, arg, max, result, flag) ==
    RespondWith(s, op, caller, arg, max, result, flag, {}, NoBody)

\* the handler in slot s goes on to its next statement
Goto(s, r) ==
    /\ req' = [req EXCEPT ![s] = r]
    /\ UNCHANGED last

\* PRIMARY KEY of a join table: an INSERT of an existing key is refused
PkFree_dropped(tbl, key) == TRUE
PkFree(tbl, key) == tbl[key] = 0

\* ------------------------------------------------------- create_hangout
\* INSERT into hangouts; max_participants is NOT NULL
HangoutInsertOk(max) == ~IsNone(max)

\* hangouts.py:89-119: insert the hangout and commit.  Of the request
\* max_participants varies; the description is "d", expected_participants is
\* left out (stored as NULL), title, pin_id and the other fields are valid.
create_hangout(s, u, max) ==
    /\ Begin(s)
    /\ Len(hangouts) < MaxHangouts
    /\ IF HangoutInsertOk(max)
       THEN /\ hangouts' = Append(hangouts, [creator_id |-> u, max_participants |-> max,
                                               description |-> "d", expected_participants |-> None])
            /\ Respond(s, "create_hangout", u, Len(hangouts) + 1, max, "ok", FALSE)
       ELSE /\ UNCHANGED hangouts
            /\ Respond(s, "create_hangout", u, 0, max, "IntegrityError", FALSE)
    /\ UNCHANGED << hangout_participants, pins, wishlists, visits, social >>

\* --------------------------------------------------------- join_hangout
\* db.query(Hangout).filter(Hangout.id == hangout_id).first()
HangoutFound(h) == h \in DOMAIN hangouts

\* join_hangout with the "if not hangout" test left out: None is dereferenced
join_hangout_unchecked(s, u, h) ==
    /\ Begin(s)
    /\ IF HangoutFound(h)
       THEN Goto(s, [pc |-> "join_existing", op |-> "join_hangout", caller |-> u,
                     arg |-> h, max |-> hangouts[h].max_participants, item |-> FALSE])
       ELSE Respond(s, "join_hangout", u, h, None, "ServerError", FALSE)
    /\ UNCHANGED store

\* hangouts.py:188-190: load the hangout (its columns stay as read here)
join_hangout(s, u, h) ==
    /\ Begin(s)
    /\ IF HangoutFound(h)
       THEN Goto(s, [pc |-> "join_existing", op |-> "join_hangout", caller |-> u,
                     arg |-> h, max |-> hangouts[h].max_participants, item |-> FALSE])
       ELSE Respond(s, "join_hangout", u, h, None, "NotFound", FALSE)
    /\ UNCHANGED store

\* hangouts.py:192-199: is the caller already a participant
join_existing(s) ==
    /\ req[s].pc = "join_existing"
    /\ IF hangout_participants[<<req[s].arg, req[s].caller>>] > 0
       THEN Respond(s, "join_hangout", req[s].caller, req[s].arg, None, "AlreadyMember", FALSE)
       ELSE Goto(s, [req[s] EXCEPT !.pc = "join_capacity"])
    /\ UNCHANGED << store, pre >>

\* len(hangout.participants) >= hangout.max_participants
IsFull_gt(n, max) == n > Val(max)
IsFull(n, max) == n >= Val(max)

\* join_capacity with the row inserted and committed before the bound is tested
join_capacity_insert_first(s) ==
    /\ req[s].pc = "join_capacity"
    /\ LET n == CountParticipants(hangout_participants, req[s].arg)
           key == <<req[s].arg, req[s].caller>>
       IN /\ hangout_participants' = [hangout_participants EXCEPT ![key] = 1]
          /\ IF IsFull(n, req[s].max)
             THEN Respond(s, "join_hangout", req[s].caller, req[s].arg, None, "Full", FALSE)
             ELSE Respond(s, "join_hangout", req[s].caller, req[s].arg, None, "ok", FALSE)
    /\ UNCHANGED << hangouts, pins, wishlists, visits, pre, social >>

\* hangouts.py:201-202: lazy-load the participants and compare with the bound
join_capacity(s) ==
    /\ req[s].pc = "join_capacity"
    /\ LET n == CountParticipants(hangout_participants, req[s].arg)
       IN IF IsNone(req[s].max)
          THEN Respond(s, "join_hangout", req[s].caller, req[s].arg, None, "ServerError", FALSE)
          ELSE IF IsFull(n, req[s].max)
          THEN Respond(s, "join_hangout", req[s].caller, req[s].arg, None, "Full", FALSE)
          ELSE Goto(s, [req[s] EXCEPT !.pc = "join_commit"])
    /\ UNCHANGED << store, pre >>

\* join_commit keeping a member counter in expected_participants
join_commit_counting(s) ==
    /\ req[s].pc = "join_commit"
    /\ LET key == <<req[s].arg, req[s].caller>>
       IN IF PkFree(hangout_participants, key)
          THEN /\ hangout_participants' = [hangout_participants EXCEPT ![key] = hangout_participants[key] + 1]
               /\ hangouts' = [hangouts EXCEPT ![req[s].arg].expected_participants =
                                  Some(CountParticipants(hangout_participants, req[s].arg) + 1)]
               /\ Respond(s, "join_hangout", req[s].caller, req[s].arg, None, "ok", FALSE)
          ELSE /\ UNCHANGED << hangouts, hangout_participants >>
               /\ Respond(s, "join_hangout", req[s].caller, req[s].arg, None, "IntegrityError", FALSE)
    /\ UNCHANGED << pins, wishlists, visits, pre, social >>

\* hangouts.py:204-212: INSERT the participant row, commit, refresh, return
join_commit(s) ==
    /\ req[s].pc = "join_commit"
    /\ LET key == <<req[s].arg, req[s].caller>>
       IN IF PkFree(hangout_participants, key)
          THEN /\ hangout_participants' =
                      [hangout_participants EXCEPT ![key] = hangout_participants[key] + 1]
               /\ Respond(s, "join_hangout", req[s].caller, req[s].arg, None, "ok", FALSE)
          ELSE /\ UNCHANGED hangout_participants
               /\ Respond(s, "join_hangout", req[s].caller, req[s].arg, None, "IntegrityError", FALSE)
    /\ UNCHANGED << hangouts, pins, wishlists, visits, pre, social >>

\* ------------------------------------------------------- update_hangout
\* schemas.py:89-97: every field of HangoutUpdate is Optional with default
\* None, so a field left out and a field sent as null both parse to None
HangoutUpdate(body) ==
    [f \in DOMAIN body |-> IF IsValue(body[f]) THEN Some(body[f][2]) ELSE None]

\* hangouts.py:156: the caller is the creator of the hangout
IsCreator_anyone(h, u) == TRUE
IsCreator(h, u) == hangouts[h].creator_id = u

\* hangouts.py:159-175: a field is assigned when the parsed value is not None
Assigned_truthy(row, updated_hangout) ==
    [row EXCEPT
       !.description = IF updated_hangout.description \notin {None, Some("")}
                       THEN Val(updated_hangout.description) ELSE @,
       !.expected_participants = IF ~IsNone(updated_hangout.expected_participants)
                                 THEN updated_hangout.expected_participants ELSE @,
       !.max_participants = IF ~IsNone(updated_hangout.max_participants)
                            THEN updated_hangout.max_participants ELSE @]
Assigned(row, updated_hangout) ==
    [row EXCEPT
       !.description = IF ~IsNone(updated_hangout.description)
                       THEN Val(updated_hangout.description) ELSE @,
       !.expected_participants = IF ~IsNone(updated_hangout.expected_participants)
                                 THEN updated_hangout.expected_participants ELSE @,
       !.max_participants = IF ~IsNone(updated_hangout.max_participants)
                            THEN updated_hangout.max_participants ELSE @]

\* hangouts.py:140-180: load the hangout, 404 when missing, 403 when the caller
\* is not its creator, else assign the provided fields, commit and return the
\* row.  The creator of a hangout never changes and no handler deletes a
\* hangout, so the SELECT and the UPDATE are taken as one step.
update_hangout(s, u, h, body) ==
    /\ Begin(s)
    /\ IF ~HangoutFound(h)
       THEN /\ UNCHANGED hangouts
            /\ RespondWith(s, "update_hangout", u, h, None, "NotFound", FALSE, {}, body)
       ELSE IF ~IsCreator(h, u)
       THEN /\ UNCHANGED hangouts
            /\ RespondWith(s, "update_hangout", u, h, None, "Forbidden", FALSE, {}, body)
       ELSE /\ hangouts' = [hangouts EXCEPT ![h] = Assigned(@, HangoutUpdate(body))]
            /\ RespondWith(s, "update_hangout", u, h, None, "ok", FALSE, {}, body)
    /\ UNCHANGED << hangout_participants, pins, wishlists, visits, social >>

\* -------------------------------------------------------------- leave
\* The hangouts router declares no leave route: a leave request matches no
\* handler, is answered by the framework and touches nothing.
leave_hangout(s, u, h) ==
    /\ Begin(s)
    /\ Respond(s, "leave_hangout", u, h, None, "NoRoute", FALSE)
    /\ UNCHANGED store

\* ----------------------------------------------------------- create_pin
\* pins.py:94-205: an administrator inserts a pin with fresh coordinates (its
\* columns play no part here); no handler deletes a pin
create_pin(s) ==
    /\ Begin(s)
    /\ Cardinality(pins) < MaxPins
    /\ pins' = pins \cup {Cardinality(pins) + 1}
    /\ Respond(s, "create_pin", 0, Cardinality(pins) + 1, None, "ok", FALSE)
    /\ UNCHANGED << hangouts, hangout_participants, wishlists, visits, social >>

\* ------------------------------------------------ wishlist / visit ledgers
AddOps == {"add_to_wishlist", "add_to_visited"}
RemoveOps == {"remove_from_wishlist", "remove_from_visited"}
ListOps == {"get_wishlist", "get_visited"}
OnWishlist(op) == op \in {"add_to_wishlist", "remove_from_wishlist", "get_wishlist"}
\* the table an operation works on, and the other one
Own(op) == IF OnWishlist(op) THEN wishlists ELSE visits
Other(op) == IF OnWishlist(op) THEN visits ELSE wishlists
\* the operation writes tbl to its own table and leaves the other alone
WriteOwn(op, tbl) ==
    IF OnWishlist(op)
    THEN wishlists' = tbl /\ UNCHANGED visits
    ELSE visits' = tbl /\ UNCHANGED wishlists

\* add_begin with the "if not pin" test left out
add_begin_unchecked(op, s, u, p) ==
    /\ Begin(s)
    /\ Goto(s, [pc |-> "add_existing", op |-> op, caller |-> u, arg |-> p,
                max |-> None, item |-> FALSE])
    /\ UNCHANGED store

\* user.py:248-250 / 278-280: db.query(Pin).filter(Pin.id == pin_id).first()
add_begin(op, s, u, p) ==
    /\ Begin(s)
    /\ IF p \in pins
       THEN Goto(s, [pc |-> "add_existing", op |-> op, caller |-> u, arg |-> p,
                     max |-> None, item |-> FALSE])
       ELSE Respond(s, op, u, p, None, "PinNotFound", FALSE)
    /\ UNCHANGED store

add_to_visited(s, u, p) == add_begin("add_to_visited", s, u, p)
add_to_wishlist(s, u, p) == add_begin("add_to_wishlist", s, u, p)

\* add_existing with the "if existing" test left out
add_existing_unchecked(s) ==
    /\ req[s].pc = "add_existing"
    /\ Goto(s, [req[s] EXCEPT !.pc = "add_commit"])
    /\ UNCHANGED << store, pre >>

\* user.py:251-252 / 281-282: is the pin already in the caller's ledger
add_existing(s) ==
    /\ req[s].pc = "add_existing"
    /\ IF Own(req[s].op)[<<req[s].caller, req[s].arg>>] > 0
       THEN Respond(s, req[s].op, req[s].caller, req[s].arg, None, "AlreadyExists", FALSE)
       ELSE Goto(s, [req[s] EXCEPT !.pc = "add_commit"])
    /\ UNCHANGED << store, pre >>

\* add_commit that also takes the pair out of the other ledger
add_commit_moving(s) ==
    /\ req[s].pc = "add_commit"
    /\ LET key == <<req[s].caller, req[s].arg>>
           tbl == Own(req[s].op)
           oth == Other(req[s].op)
       IN IF PkFree(tbl, key)
          THEN /\ IF OnWishlist(req[s].op)
                  THEN wishlists' = [tbl EXCEPT ![key] = tbl[key] + 1]
                       /\ visits' = [oth EXCEPT ![key] = 0]
                  ELSE visits' = [tbl EXCEPT ![key] = tbl[key] + 1]
                       /\ wishlists' = [oth EXCEPT ![key] = 0]
               /\ Goto(s, [req[s] EXCEPT !.pc = "add_refresh"])
          ELSE /\ UNCHANGED << wishlists, visits >>
               /\ Respond(s, req[s].op, req[s].caller, req[s].arg, None, "IntegrityError", FALSE)
    /\ UNCHANGED << hangouts, hangout_participants, pins, pre, social >>

\* user.py:254-259 / 284-289: INSERT the ledger row and commit
add_commit(s) ==
    /\ req[s].pc = "add_commit"
    /\ LET key == <<req[s].caller, req[s].arg>>
           tbl == Own(req[s].op)
       IN IF PkFree(tbl, key)
          THEN /\ WriteOwn(req[s].op, [tbl EXCEPT ![key] = tbl[key] + 1])
               /\ Goto(s, [req[s] EXCEPT !.pc = "add_refresh"])
          ELSE /\ UNCHANGED << wishlists, visits >>
               /\ Respond(s, req[s].op, req[s].caller, req[s].arg, None, "IntegrityError", FALSE)
    /\ UNCHANGED << hangouts, hangout_participants, pins, pre, social >>

\* user.py:260 / 290: db.refresh(item) raises when the row is gone
add_refresh(s) ==
    /\ req[s].pc = "add_refresh"
    /\ IF Own(req[s].op)[<<req[s].caller, req[s].arg>>] > 0
       THEN Goto(s, [req[s] EXCEPT !.pc = "add_requery"])
       ELSE Respond(s, req[s].op, req[s].caller, req[s].arg, None, "ServerError", FALSE)
    /\ UNCHANGED << store, pre >>

\* user.py:262-264 / 292-294: load the row again with its pin; None when it is gone
add_requery(s) ==
    /\ req[s].pc = "add_requery"
    /\ Goto(s, [req[s] EXCEPT !.pc = "add_crossref",
                              !.item = Own(req[s].op)[<<req[s].caller, req[s].arg>>] > 0])
    /\ UNCHANGED << store, pre >>

\* add_crossref looking the pair up in the ledger just written
add_crossref_own(s) ==
    /\ req[s].pc = "add_crossref"
    /\ LET flag == Own(req[s].op)[<<req[s].caller, req[s].arg>>] > 0
       IN IF req[s].item
          THEN Respond(s, req[s].op, req[s].caller, req[s].arg, None, "ok", flag)
          ELSE Respond(s, req[s].op, req[s].caller, req[s].arg, None, "ServerError", FALSE)
    /\ UNCHANGED << store, pre >>

\* user.py:266-271 / 296-301: look the pair up in the other ledger and serialize
add_crossref(s) ==
    /\ req[s].pc = "add_crossref"
    /\ LET flag == Other(req[s].op)[<<req[s].caller, req[s].arg>>] > 0
       IN IF req[s].item
          THEN Respond(s, req[s].op, req[s].caller, req[s].arg, None, "ok", flag)
          ELSE Respond(s, req[s].op, req[s].caller, req[s].arg, None, "ServerError", FALSE)
    /\ UNCHANGED << store, pre >>

\* user.py:308-310 / 320-322: load the caller's ledger row
remove_begin(op, s, u, p) ==
    /\ Begin(s)
    /\ IF Own(op)[<<u, p>>] > 0
       THEN Goto(s, [pc |-> "remove_commit", op |-> op, caller |-> u, arg |-> p,
                     max |-> None, item |-> FALSE])
       ELSE Respond(s, op, u, p, None, "NotInLedger", FALSE)
    /\ UNCHANGED store

remove_from_visited(s, u, p) == remove_begin("remove_from_visited", s, u, p)
remove_from_wishlist(s, u, p) == remove_begin("remove_from_wishlist", s, u, p)

\* remove_commit that answers without deleting the row
remove_commit_kept(s) ==
    /\ req[s].pc = "remove_commit"
    /\ Respond(s, req[s].op, req[s].caller, req[s].arg, None, "ok", FALSE)
    /\ UNCHANGED << store, pre >>

\* user.py:311-313 / 323-325: DELETE the row by its key and commit (a DELETE
\* that matches no row is only warned about by the ORM)
remove_commit(s) ==
    /\ req[s].pc = "remove_commit"
    /\ LET key == <<req[s].caller, req[s].arg>>
           tbl == Own(req[s].op)
       IN WriteOwn(req[s].op, [tbl EXCEPT ![key] = 0])
    /\ Respond(s, req[s].op, req[s].caller, req[s].arg, None, "ok", FALSE)
    /\ UNCHANGED << hangouts, hangout_participants, pins, pre, social >>

\* user.py:504-521: a wishlist row is serialized with is_wishlisted true
serialize_wishlist_item(p, is_visited) ==
    [pin_id |-> p, is_wishlisted |-> TRUE, is_visited |-> is_visited]
\* user.py:524-541: a visit row is serialized with is_visited true
serialize_visit_item(p, is_wishlisted) ==
    [pin_id |-> p, is_wishlisted |-> is_wishlisted, is_visited |-> TRUE]
serialize_item(op, p, flag) ==
    IF OnWishlist(op) THEN serialize_wishlist_item(p, flag) ELSE serialize_visit_item(p, flag)

\* user.py:195-209 / 222-236: the caller's rows of the ledger, outer-joined on
\* pin_id with the caller's rows of the other ledger; the flag of a result row
\* is "a joined row exists".  A result is [item, copies]: the serialized row and
\* how many times the join returns it.
LedgerJoin(op, u) ==
    { [item |-> serialize_item(op, p, Other(op)[<<u, p>>] > 0),
       copies |-> Own(op)[<<u, p>>]
                  * (IF Other(op)[<<u, p>>] > 0 THEN Other(op)[<<u, p>>] ELSE 1)] :
      p \in {q \in PinIds : Own(op)[<<u, q>>] > 0} }

\* list_ledger whose subquery on the other ledger is not filtered by the caller
list_ledger_any_user(op, s, u) ==
    /\ Begin(s)
    /\ LET result == { [item |-> serialize_item(op, p, \E v \in Users : Other(op)[<<v, p>>] > 0),
                        copies |-> Own(op)[<<u, p>>]] :
                       p \in {q \in PinIds : Own(op)[<<u, q>>] > 0} }
       IN IF result = {}
          THEN RespondWith(s, op, u, 0, None, "NotFound", FALSE, {}, NoBody)
          ELSE RespondWith(s, op, u, 0, None, "ok", FALSE, result, NoBody)
    /\ UNCHANGED store

\* list_ledger without the "if not visit / if not wishlist" test
list_ledger_lenient(op, s, u) ==
    /\ Begin(s)
    /\ RespondWith(s, op, u, 0, None, "ok", FALSE, LedgerJoin(op, u), NoBody)
    /\ UNCHANGED store

\* user.py:190-214 / 217-241: one SELECT; 404 when it returns no row, else the
\* serialized rows
list_ledger(op, s, u) ==
    /\ Begin(s)
    /\ LET result == LedgerJoin(op, u)
       IN IF result = {}
          THEN RespondWith(s, op, u, 0, None, "NotFound", FALSE, {}, NoBody)
          ELSE RespondWith(s, op, u, 0, None, "ok", FALSE, result, NoBody)
    /\ UNCHANGED store

get_visited(s, u) == list_ledger("get_visited", s, u)
get_wishlist(s, u) == list_ledger("get_wishlist", s, u)

\* user.py:395-446: the ledgers of user id, read by a caller whose token
\* carries (id u, is_admin); the query is the one of the own-ledger listing
\* with id in place of the caller
ByIdOps == {"get_wishlist_by_id", "get_visited_by_id"}
OwnListing(op) == IF op = "get_wishlist_by_id" THEN "get_wishlist" ELSE "get_visited"

\* list_ledger_by_id without the test of the caller
list_ledger_by_id_unchecked(op, s, u, is_admin, id) ==
    /\ Begin(s)
    /\ LET result == LedgerJoin(OwnListing(op), id)
       IN IF result = {}
          THEN RespondWith(s, op, u, id, None, "NotFound", is_admin, {}, NoBody)
          ELSE RespondWith(s, op, u, id, None, "ok", is_admin, result, NoBody)
    /\ UNCHANGED store

\* user.py:397-398 / 424-425: 403 unless admin or own id; then the join and
\* the 404 on an empty result
list_ledger_by_id(op, s, u, is_admin, id) ==
    /\ Begin(s)
    /\ IF ~is_admin /\ u # id
       THEN RespondWith(s, op, u, id, None, "Forbidden", is_admin, {}, NoBody)
       ELSE LET result == LedgerJoin(OwnListing(op), id)
            IN IF result = {}
               THEN RespondWith(s, op, u, id, None, "NotFound", is_admin, {}, NoBody)
               ELSE RespondWith(s, op, u, id, None, "ok", is_admin, result, NoBody)
    /\ UNCHANGED store

get_visited_by_id(s, u, is_admin, id) == list_ledger_by_id("get_visited_by_id", s, u, is_admin, id)
get_wishlist_by_id(s, u, is_admin, id) == list_ledger_by_id("get_wishlist_by_id", s, u, is_admin, id)

\* ---------------------------------------------------------------- login
\* The redis client is connected (auth.py:32-43) and its commands succeed.
\* A login names an email e (the id of its account, or the one of no account)
\* and sends the right or a wrong password.

\* auth.py:145-146, 58-68: check_login_attempts reads the entry; only a locked
\* entry leads to the TTL test
login_for_access_token(s, e, right) ==
    /\ BeginSocial(s)
    /\ failed[e] < MaxFailed /\ login_attempts[e].count < MaxFailed  \* exploration bound
    /\ Goto(s, [pc |-> IF login_attempts[e].present /\ login_attempts[e].locked
                       THEN "login_ttl" ELSE "authenticate",
                op |-> "login", caller |-> e, arg |-> 0, max |-> NoKey, item |-> right])
    /\ UNCHANGED store

\* auth.py:70-76: ttl > 0 while the entry exists; then 429
login_ttl(s) ==
    /\ req[s].pc = "login_ttl"
    /\ IF login_attempts[req[s].caller].present
       THEN Respond(s, "login", req[s].caller, 0, None, "Locked", req[s].item)
       ELSE Goto(s, [req[s] EXCEPT !.pc = "authenticate"])
    /\ UNCHANGED << store, pre >>

\* authenticate_user without the is_suspended test
authenticate_user_unsuspended(s) ==
    /\ req[s].pc = "authenticate"
    /\ LET e == req[s].caller
       IN IF e \notin DOMAIN users \/ ~req[s].item
          THEN Goto(s, [req[s] EXCEPT !.pc = "record_get"])
          ELSE Goto(s, [req[s] EXCEPT !.pc = "clear"])
    /\ UNCHANGED << store, pre >>

\* auth.py:147, 159-167: no account or a wrong password gives False, the right
\* password of a suspended account 403, else the user
authenticate_user(s) ==
    /\ req[s].pc = "authenticate"
    /\ LET e == req[s].caller
       IN IF e \notin DOMAIN users \/ ~req[s].item
          THEN Goto(s, [req[s] EXCEPT !.pc = "record_get"])
          ELSE IF users[e].is_suspended
          THEN Respond(s, "login", e, 0, None, "Suspended", req[s].item)
          ELSE Goto(s, [req[s] EXCEPT !.pc = "clear"])
    /\ UNCHANGED << store, pre >>

\* auth.py:148-149, 88: record_failed_attempt reads the entry
record_failed_attempt_get(s) ==
    /\ req[s].pc = "record_get"
    /\ login_attempts[req[s].caller].count <= MaxFailed  \* exploration bound
    /\ Goto(s, [req[s] EXCEPT !.pc = "record_setex", !.max = login_attempts[req[s].caller]])
    /\ UNCHANGED << store, pre >>

\* the entry record_failed_attempt writes from the entry it read (auth.py:90-97)
Counted_from_four(data) ==
    LET count == IF data.present THEN data.count + 1 ELSE 1
    IN [present |-> TRUE, count |-> count, locked |-> count > MAX_LOGIN_ATTEMPTS]
Counted(data) ==
    LET count == IF data.present THEN data.count + 1 ELSE 1
    IN [present |-> TRUE, count |-> count, locked |-> count >= MAX_LOGIN_ATTEMPTS]

\* auth.py:90-111, 150: SETEX of the new entry; 429 when it is locked, else 401
record_failed_attempt_setex(s) ==
    /\ req[s].pc = "record_setex"
    /\ LET e == req[s].caller
           data == Counted(req[s].max)
       IN /\ login_attempts' = [login_attempts EXCEPT ![e] = data]
          /\ failed' = [failed EXCEPT ![e] = failed[e] + 1]
          /\ Respond(s, "login", e, 0, None,
                     IF data.locked THEN "Locked" ELSE "Unauthorized", req[s].item)
    /\ UNCHANGED << hangouts, hangout_participants, pins, wishlists, visits,
                    users, follows, posts, post_likes, pre >>

\* a successful login that leaves the entry in place
clear_login_attempts_kept(s) ==
    /\ req[s].pc = "clear"
    /\ failed' = [failed EXCEPT ![req[s].caller] = 0]
    /\ Respond(s, "login", req[s].caller, 0, None, "ok", req[s].item)
    /\ UNCHANGED << hangouts, hangout_participants, pins, wishlists, visits,
                    users, follows, posts, post_likes, login_attempts, pre >>

\* auth.py:152-156, 117-126: DELETE the entry and return a token
clear_login_attempts(s) ==
    /\ req[s].pc = "clear"
    /\ login_attempts' = [login_attempts EXCEPT ![req[s].caller] = NoKey]
    /\ failed' = [failed EXCEPT ![req[s].caller] = 0]
    /\ Respond(s, "login", req[s].caller, 0, None, "ok", req[s].item)
    /\ UNCHANGED << hangouts, hangout_participants, pins, wishlists, visits,
                    users, follows, posts, post_likes, pre >>

\* auth.py:101, 108: redis drops an entry when its time to live has run out;
\* whatever request is in flight no longer runs undisturbed
key_expires(e) ==
    /\ login_attempts[e].present
    /\ login_attempts' = [login_attempts EXCEPT ![e] = NoKey]
    /\ failed' = [failed EXCEPT ![e] = 0]
    /\ pre' = NoSnap
    /\ UNCHANGED << hangouts, hangout_participants, pins, wishlists, visits,
                    users, follows, posts, post_likes, req, last >>

\* ---------------------------------------------------------- suspend_user
\* the administrator's token carries is_admin; it is the caller outside Users
IsAdmin(u) == u \notin Users
Callers == Users \cup {0}
\* durations a SuspensionRequest may carry
Durations == {1, 2}

\* user.py:485-493: 403 unless the token is an administrator's, 404 without the
\* account, 400 when it is already suspended
suspend_user(s, u, id, duration) ==
    /\ BeginSocial(s)
    /\ IF ~IsAdmin(u)
       THEN Respond(s, "suspend_user", u, id, None, "Forbidden", FALSE)
       ELSE IF id \notin DOMAIN users
       THEN Respond(s, "suspend_user", u, id, None, "NotFound", FALSE)
       ELSE IF users[id].is_suspended
       THEN Respond(s, "suspend_user", u, id, None, "AlreadySuspended", FALSE)
       ELSE Goto(s, [pc |-> "suspend_commit", op |-> "suspend_user", caller |-> u,
                     arg |-> id, max |-> Some(duration), item |-> FALSE])
    /\ UNCHANGED store

\* user.py:495-501: UPDATE the suspension columns, commit and return the row
suspend_commit(s) ==
    /\ req[s].pc = "suspend_commit"
    /\ users' = [users EXCEPT ![req[s].arg] =
                    [is_suspended |-> TRUE, suspended_until |-> req[s].max,
                     until_passed |-> FALSE]]
    /\ Respond(s, "suspend_user", req[s].caller, req[s].arg, None, "ok", FALSE)
    /\ UNCHANGED << hangouts, hangout_participants, pins, wishlists, visits,
                    follows, posts, post_likes, login_attempts, failed, pre >>

\* time passes suspended_until (user.py:497); no handler reads the column
suspension_ends(id) ==
    /\ users[id].is_suspended /\ ~users[id].until_passed
    /\ users' = [users EXCEPT ![id].until_passed = TRUE]
    /\ pre' = NoSnap
    /\ UNCHANGED << hangouts, hangout_participants, pins, wishlists, visits,
                    follows, posts, post_likes, login_attempts, failed, req, last >>

\* ------------------------------------------------------------ like_post
\* posts.py:55-106: insert a post of the caller (its pin and media are valid);
\* like_count takes the column default 0 (models.py:206)
create_post(s, u) ==
    /\ BeginSocial(s)
    /\ Len(posts) < MaxPosts
    /\ posts' = Append(posts, [user_id |-> u, like_count |-> 0])
    /\ Respond(s, "create_post", u, Len(posts) + 1, None, "ok", FALSE)
    /\ UNCHANGED << hangouts, hangout_participants, pins, wishlists, visits,
                    users, follows, post_likes, login_attempts, failed >>

\* posts.py:136-138: load the post; the session keeps the like_count it read
like_post(s, u, p) ==
    /\ BeginSocial(s)
    /\ IF p \in DOMAIN posts
       THEN Goto(s, [pc |-> "like_existing", op |-> "like_post", caller |-> u,
                     arg |-> p, max |-> Some(posts[p].like_count), item |-> FALSE])
       ELSE Respond(s, "like_post", u, p, None, "NotFound", FALSE)
    /\ UNCHANGED store

\* posts.py:141-143: has the caller liked the post already
like_existing(s) ==
    /\ req[s].pc = "like_existing"
    /\ IF post_likes[<<req[s].caller, req[s].arg>>] > 0
       THEN Respond(s, req[s].op, req[s].caller, req[s].arg, None, "AlreadyLiked", FALSE)
       ELSE Goto(s, [req[s] EXCEPT !.pc = "like_commit"])
    /\ UNCHANGED << store, pre >>

\* posts.py:145-153: one transaction writes like_count = the value read + 1
\* and inserts the like row; a refused INSERT rolls both back
like_commit(s) ==
    /\ req[s].pc = "like_commit"
    /\ LET key == <<req[s].caller, req[s].arg>>
       IN IF PkFree(post_likes, key)
          THEN /\ posts' = [posts EXCEPT ![req[s].arg].like_count = Val(req[s].max) + 1]
               /\ post_likes' = [post_likes EXCEPT ![key] = post_likes[key] + 1]
               /\ Respond(s, req[s].op, req[s].caller, req[s].arg, None, "ok", FALSE)
          ELSE /\ UNCHANGED << posts, post_likes >>
               /\ Respond(s, req[s].op, req[s].caller, req[s].arg, None, "IntegrityError", FALSE)
    /\ UNCHANGED << hangouts, hangout_participants, pins, wishlists, visits,
                    users, follows, login_attempts, failed, pre >>

\* ------------------------------------------------------ follow / unfollow
\* user.py:365-367 / 385-387: the account query by the path id
follow(s, u, id) ==
    /\ BeginSocial(s)
    /\ IF id \in DOMAIN users
       THEN Goto(s, [pc |-> "follow_existing", op |-> "follow", caller |-> u,
                     arg |-> id, max |-> None, item |-> FALSE])
       ELSE Respond(s, "follow", u, id, None, "NotFound", FALSE)
    /\ UNCHANGED store
unfollow_user(s, u, id) ==
    /\ BeginSocial(s)
    /\ IF id \in DOMAIN users
       THEN Goto(s, [pc |-> "unfollow_existing", op |-> "unfollow_user", caller |-> u,
                     arg |-> id, max |-> None, item |-> FALSE])
       ELSE Respond(s, "unfollow_user", u, id, None, "NotFound", FALSE)
    /\ UNCHANGED store

\* user.py:368-370: the caller's follow row for the target; 400 when it exists
follow_existing_unchecked(s) ==
    /\ req[s].pc = "follow_existing"
    /\ Goto(s, [req[s] EXCEPT !.pc = "follow_commit"])
    /\ UNCHANGED << store, pre >>
follow_existing(s) ==
    /\ req[s].pc = "follow_existing"
    /\ IF follows[<<req[s].caller, req[s].arg>>] > 0
       THEN Respond(s, req[s].op, req[s].caller, req[s].arg, None, "AlreadyFollowing", FALSE)
       ELSE Goto(s, [req[s] EXCEPT !.pc = "follow_commit"])
    /\ UNCHANGED << store, pre >>

\* user.py:371-376: INSERT and commit; the composite primary key
\* (models.py:13-14) refuses a second row of the pair
follow_commit(s) ==
    /\ req[s].pc = "follow_commit"
    /\ LET key == <<req[s].caller, req[s].arg>>
       IN IF PkFree(follows, key)
          THEN /\ follows' = [follows EXCEPT ![key] = follows[key] + 1]
               /\ Goto(s, [req[s] EXCEPT !.pc = "follow_refresh"])
          ELSE /\ UNCHANGED follows
               /\ Respond(s, req[s].op, req[s].caller, req[s].arg, None, "IntegrityError", FALSE)
    /\ UNCHANGED << hangouts, hangout_participants, pins, wishlists, visits,
                    users, posts, post_likes, login_attempts, failed, pre >>

\* user.py:377-378: db.refresh(new_follow) raises when the row is gone
follow_refresh(s) ==
    /\ req[s].pc = "follow_refresh"
    /\ Respond(s, req[s].op, req[s].caller, req[s].arg, None,
               IF follows[<<req[s].caller, req[s].arg>>] > 0 THEN "ok" ELSE "ServerError", FALSE)
    /\ UNCHANGED << store, pre >>

\* user.py:388-390: the caller's follow row for the target; 400 when there is none
unfollow_existing(s) ==
    /\ req[s].pc = "unfollow_existing"
    /\ IF follows[<<req[s].caller, req[s].arg>>] > 0
       THEN Goto(s, [req[s] EXCEPT !.pc = "unfollow_commit"])
       ELSE Respond(s, req[s].op, req[s].caller, req[s].arg, None, "NotFollowing", FALSE)
    /\ UNCHANGED << store, pre >>

\* user.py:391-393: DELETE by primary key and commit; a DELETE that matches
\* no row is only a warning of the ORM
unfollow_commit(s) ==
    /\ req[s].pc = "unfollow_commit"
    /\ follows' = [follows EXCEPT ![<<req[s].caller, req[s].arg>>] = 0]
    /\ Respond(s, req[s].op, req[s].caller, req[s].arg, None, "ok", FALSE)
    /\ UNCHANGED << hangouts, hangout_participants, pins, wishlists, visits,
                    users, posts, post_likes, login_attempts, failed, pre >>

HangoutNext(s) ==
    \/ \E u \in Users, max \in MaxInputs : create_hangout(s, u, max)
    \/ \E u \in Users, h \in HangoutIds : join_hangout(s, u, h)
    \/ join_existing(s)
    \/ join_capacity(s)
    \/ join_commit(s)
    \/ \E u \in Users, h \in HangoutIds : leave_hangout(s, u, h)

LedgerNext(s) ==
    \/ create_pin(s)
    \/ \E u \in Users, p \in PinIds : add_to_visited(s, u, p)
    \/ \E u \in Users, p \in PinIds : add_to_wishlist(s, u, p)
    \/ add_existing(s)
    \/ add_commit(s)
    \/ add_refresh(s)
    \/ add_requery(s)
    \/ add_crossref(s)
    \/ \E u \in Users, p \in PinIds : remove_from_visited(s, u, p)
    \/ \E u \in Users, p \in PinIds : remove_from_wishlist(s, u, p)
    \/ remove_commit(s)
    \/ \E u \in Users : get_visited(s, u)
    \/ \E u \in Users : get_wishlist(s, u)

\* requests on the hangout routes, interleaved statement by statement
Next == \E s \in Requests : HangoutNext(s)
Spec == Init /\ [][Next]_vars

\* requests on the ledger routes, interleaved statement by statement
NextLedger == \E s \in Requests : LedgerNext(s)
SpecLedger == Init /\ [][NextLedger]_vars

\* requests one after the other: only slot 1 is used, so a request begins
\* when no other is in flight.  The hangout handlers read and write only
\* hangouts and hangout_participants, the ledger handlers only pins, wishlists
\* and visits, so a run serves the hangout routes or the ledger routes.
LedgersEmpty == pins = {} /\ \A k \in Users \X PinIds : wishlists[k] = 0 /\ visits[k] = 0
HangoutsEmpty == hangouts = << >>
NextSeq ==
    \/ LedgersEmpty /\ \E u \in Users, max \in MaxInputs : create_hangout(1, u, max)
    \/ LedgersEmpty /\ \E u \in Users, h \in HangoutIds : join_hangout(1, u, h)
    \/ LedgersEmpty /\ join_existing(1)
    \/ LedgersEmpty /\ join_capacity(1)
    \/ LedgersEmpty /\ join_commit(1)
    \/ LedgersEmpty /\ \E u \in Users, h \in HangoutIds : leave_hangout(1, u, h)
    \/ HangoutsEmpty /\ create_pin(1)
    \/ HangoutsEmpty /\ \E u \in Users, p \in PinIds : add_to_visited(1, u, p)
    \/ HangoutsEmpty /\ \E u \in Users, p \in PinIds : add_to_wishlist(1, u, p)
    \/ HangoutsEmpty /\ add_existing(1)
    \/ HangoutsEmpty /\ add_commit(1)
    \/ HangoutsEmpty /\ add_refresh(1)
    \/ HangoutsEmpty /\ add_requery(1)
    \/ HangoutsEmpty /\ add_crossref(1)
    \/ HangoutsEmpty /\ \E u \in Users, p \in PinIds : remove_from_visited(1, u, p)
    \/ HangoutsEmpty /\ \E u \in Users, p \in PinIds : remove_from_wishlist(1, u, p)
    \/ HangoutsEmpty /\ remove_commit(1)
    \/ HangoutsEmpty /\ \E u \in Users : get_visited(1, u)
    \/ HangoutsEmpty /\ \E u \in Users : get_wishlist(1, u)
SpecSeq == Init /\ [][NextSeq]_vars

\* One run follows the ledgers of a reader and of one user read: besides u
\* at most one user has ledger rows.
TwoOwners(u) ==
    \E v \in Users : \A w \in Users \ {u, v}, p \in PinIds :
        wishlists[<<w, p>>] = 0 /\ visits[<<w, p>>] = 0

\* ledger writes and the by-id listings, one request at a time
NextById ==
    \/ create_pin(1)
    \/ \E u \in Users, p \in PinIds : TwoOwners(u) /\ add_to_visited(1, u, p)
    \/ \E u \in Users, p \in PinIds : TwoOwners(u) /\ add_to_wishlist(1, u, p)
    \/ add_existing(1)
    \/ add_commit(1)
    \/ add_refresh(1)
    \/ add_requery(1)
    \/ add_crossref(1)
    \/ \E u \in Users, p \in PinIds : remove_from_visited(1, u, p)
    \/ \E u \in Users, p \in PinIds : remove_from_wishlist(1, u, p)
    \/ remove_commit(1)
    \/ \E u \in Users, is_admin \in BOOLEAN, id \in Users : get_visited_by_id(1, u, is_admin, id)
    \/ \E u \in Users, is_admin \in BOOLEAN, id \in Users : get_wishlist_by_id(1, u, is_admin, id)
SpecById == Init /\ [][NextById]_vars

\* One run follows the rows of one follower: no other follower has a row or
\* a request in flight.
OneFollower(u) ==
    /\ \A k \in Users \X Users : k[1] # u => follows[k] = 0
    /\ \A t \in Requests : IsIdle(t) \/ req[t].caller = u

\* follow and unfollow requests interleaved statement by statement
NextFollow ==
    \/ \E s \in Requests, u \in Users, id \in UserIds : OneFollower(u) /\ follow(s, u, id)
    \/ \E s \in Requests, u \in Users, id \in UserIds : OneFollower(u) /\ unfollow_user(s, u, id)
    \/ \E s \in Requests : follow_existing(s)
    \/ \E s \in Requests : follow_commit(s)
    \/ \E s \in Requests : follow_refresh(s)
    \/ \E s \in Requests : unfollow_existing(s)
    \/ \E s \in Requests : unfollow_commit(s)
SpecFollow == Init /\ [][NextFollow]_vars

\* requests on the post routes, interleaved statement by statement
NextPosts ==
    \/ \E s \in Requests, u \in Users : create_post(s, u)
    \/ \E s \in Requests, u \in Users, p \in PostIds : like_post(s, u, p)
    \/ \E s \in Requests : like_existing(s)
    \/ \E s \in Requests : like_commit(s)
SpecPosts == Init /\ [][NextPosts]_vars

\* The login and suspension handlers read and write only the redis entry and
\* the account of the email or id they name, so a run stays with one account
\* while any other has an entry, a suspension or a request in flight.
OthersUntouched(e) ==
    /\ \A f \in UserIds \ {e} : login_attempts[f] = NoKey /\ failed[f] = 0
    /\ \A f \in Users \ {e} : users[f] = NewUser
    /\ \A t \in Requests : IsIdle(t) \/ req[t].caller = e

\* logins interleaved command by command, entries expiring at any time
NextLogin ==
    \/ \E s \in Requests, e \in UserIds, right \in BOOLEAN :
          OthersUntouched(e) /\ login_for_access_token(s, e, right)
    \/ \E s \in Requests : login_ttl(s)
    \/ \E s \in Requests : authenticate_user(s)
    \/ \E s \in Requests : record_failed_attempt_get(s)
    \/ \E s \in Requests : record_failed_attempt_setex(s)
    \/ \E s \in Requests : clear_login_attempts(s)
    \/ \E e \in UserIds : key_expires(e)
SpecLogin == Init /\ [][NextLogin]_vars

\* logins and suspensions one after the other, an entry expiring or a
\* suspension period ending between two of them
NextAuthSeq ==
    \/ \E e \in UserIds, right \in BOOLEAN :
          OthersUntouched(e) /\ login_for_access_token(1, e, right)
    \/ login_ttl(1)
    \/ authenticate_user(1)
    \/ record_failed_attempt_get(1)
    \/ record_failed_attempt_setex(1)
    \/ clear_login_attempts(1)
    \/ \E e \in UserIds : AllIdle /\ key_expires(e)
    \/ \E u \in Callers, id \in UserIds, d \in Durations :
          OthersUntouched(id) /\ suspend_user(1, u, id, d)
    \/ suspend_commit(1)
    \/ \E id \in Users : AllIdle /\ suspension_ends(id)
SpecAuthSeq == Init /\ [][NextAuthSeq]_vars

\* requests on the hangout routes one after the other, updates among them
NextUpdate ==
    \/ \E u \in Users, max \in MaxInputs : create_hangout(1, u, max)
    \/ \E u \in Users, h \in HangoutIds : join_hangout(1, u, h)
    \/ join_existing(1)
    \/ join_capacity(1)
    \/ join_commit(1)
    \/ \E u \in Users, h \in HangoutIds, body \in UpdateBodies : update_hangout(1, u, h, body)
SpecUpdate == Init /\ [][NextUpdate]_vars

\* ================================================================ claims
\* The most recent request ran from begin to end with no other request in
\* flight: it began in store pre and returned last.
Done == AllIdle /\ pre # NoSnap
JoinDone == Done /\ last.op = "join_hangout"
LeaveDone == Done /\ last.op = "leave_hangout"
\* the store is pre except for one more row (h, u) in hangout_participants
OnlyRowAdded(h, u) ==
    Store = [pre EXCEPT !.hangout_participants[<<h, u>>] = 1]

\* C1: the number of participant rows of a hangout never exceeds its
\* max_participants, whatever the interleaving of concurrent joins (of N+1
\* concurrent joins to a hangout with bound N at most N succeed).
C1_CapacityNeverExceeded ==
    \A h \in DOMAIN hangouts :
        CountParticipants(hangout_participants, h) <= Val(hangouts[h].max_participants)

\* C2: a join by a non-member of an existing hangout, run on its own, fails
\* with Full exactly when max_participants is set and the number of rows of
\* the hangout is >= max_participants; otherwise it succeeds and inserts the
\* row (H, u) and nothing else.
C2_FullExactlyWhenAtCapacity ==
    (/\ JoinDone
     /\ last.arg \in DOMAIN pre.hangouts
     /\ pre.hangout_participants[<<last.arg, last.caller>>] = 0)
    => LET max == pre.hangouts[last.arg].max_participants
           n == CountParticipants(pre.hangout_participants, last.arg)
       IN IF ~IsNone(max) /\ n >= Val(max)
          THEN last.result = "Full" /\ Store = pre
          ELSE last.result = "ok" /\ OnlyRowAdded(last.arg, last.caller)

\* C2 witness: a join was refused with Full at a hangout holding exactly
\* max_participants >= 1 rows, and another was accepted below the bound.
C2_Witness_FullAtBound ==
    /\ JoinDone
    /\ last.result = "Full"
    /\ last.arg \in DOMAIN pre.hangouts
    /\ Val(pre.hangouts[last.arg].max_participants) >= 1
    /\ CountParticipants(pre.hangout_participants, last.arg)
           = Val(pre.hangouts[last.arg].max_participants)

\* C3: there is at most one participant row per (hangout, user) pair in every
\* reachable state, and a join by a user who already has a row in the hangout
\* is answered AlreadyMember and leaves the store unchanged.
C3_OneRowPerPair ==
    /\ \A k \in HangoutIds \X Users : hangout_participants[k] <= 1
    /\ (/\ JoinDone
        /\ last.arg \in DOMAIN pre.hangouts
        /\ pre.hangout_participants[<<last.arg, last.caller>>] > 0)
       => (last.result = "AlreadyMember" /\ Store = pre)

\* C3 witness: a second join of a member has been answered AlreadyMember.
C3_Witness_SecondJoin ==
    /\ JoinDone
    /\ last.result = "AlreadyMember"
    /\ hangout_participants[<<last.arg, last.caller>>] = 1

\* C4: in a hangout with max_participants = 2 that holds two rows, a leave by
\* one of the two members succeeds and brings the count to 1 (so that the
\* next join finds a free slot).
C4_LeaveFreesSlot ==
    (/\ LeaveDone
     /\ last.arg \in DOMAIN pre.hangouts
     /\ pre.hangouts[last.arg].max_participants = Some(2)
     /\ CountParticipants(pre.hangout_participants, last.arg) = 2
     /\ pre.hangout_participants[<<last.arg, last.caller>>] > 0)
    => (/\ last.result = "ok"
        /\ CountParticipants(hangout_participants, last.arg) = 1)

\* C5: a leave of an existing hangout by a user with no participant row fails
\* with NotMember and leaves the store unchanged.
C5_LeaveWithoutJoin ==
    (/\ LeaveDone
     /\ last.arg \in DOMAIN pre.hangouts
     /\ pre.hangout_participants[<<last.arg, last.caller>>] = 0)
    => (last.result = "NotMember" /\ Store = pre)

\* C6: after a leave by a member the pair (H, u) has no row: the pair is back
\* in NotMember, from where a later join succeeds.
C6_LeaveReturnsToNotMember ==
    (/\ LeaveDone
     /\ last.arg \in DOMAIN pre.hangouts
     /\ pre.hangout_participants[<<last.arg, last.caller>>] > 0)
    => hangout_participants[<<last.arg, last.caller>>] = 0

\* C7: a hangout whose max_participants is absent can be created: a
\* create_hangout with max_participants = null succeeds and stores the hangout.
C7_UnlimitedHangoutCreated ==
    (/\ Done
     /\ last.op = "create_hangout"
     /\ IsNone(last.max))
    => (/\ last.result = "ok"
        /\ Len(hangouts) = Len(pre.hangouts) + 1)

\* C8: every join ends with success or one of the typed errors NotFound,
\* AlreadyMember, Full, also when two joins of the same user run concurrently.
C8_JoinEndsTyped ==
    last.op = "join_hangout"
    => last.result \in {"ok", "NotFound", "AlreadyMember", "Full"}

\* C9: a join, ledger add or ledger remove that ends in an error leaves the
\* store exactly as it was when the call began.
C9_ErrorLeavesStore ==
    (/\ Done
     /\ last.op \in {"join_hangout"} \cup AddOps \cup RemoveOps
     /\ last.result # "ok")
    => Store = pre

\* C9 witness: a join failed the capacity check of a hangout with room for
\* nobody and no participant row exists.
C9_Witness_FullLeavesNoRow ==
    /\ JoinDone
    /\ last.result = "Full"
    /\ \A k \in HangoutIds \X Users : hangout_participants[k] = 0

\* C10: a join of a hangout id that is not in the store fails with NotFound
\* and inserts no participant row.
C10_JoinUnknownHangout ==
    (/\ JoinDone
     /\ last.arg \notin DOMAIN pre.hangouts)
    => (last.result = "NotFound" /\ Store = pre)

\* C10 witness: a join of a missing hangout has been answered NotFound.
C10_Witness_NotFound ==
    /\ JoinDone
    /\ last.result = "NotFound"
    /\ last.arg \notin DOMAIN hangouts

UpdateDone == Done /\ last.op = "update_hangout"
\* the stored form of a value v sent for field f
StoredAs(f, v) == IF f = "description" THEN v ELSE Some(v)
PatchFields == DOMAIN NoBody

\* C12: an update of an existing hangout by a caller who is not its creator
\* is answered Forbidden and leaves the whole store as it was; an update that
\* changed a hangout row was made by the creator of that hangout.
C12_NonOwnerForbidden ==
    UpdateDone =>
        /\ (/\ last.arg \in DOMAIN pre.hangouts
            /\ pre.hangouts[last.arg].creator_id # last.caller)
              => last.result = "Forbidden" /\ Store = pre
        /\ hangouts # pre.hangouts
              => /\ last.arg \in DOMAIN pre.hangouts
                 /\ pre.hangouts[last.arg].creator_id = last.caller
\* a non-creator sent a description other than the stored one and was refused
C12_Witness_Forbidden ==
    /\ UpdateDone /\ last.result = "Forbidden"
    /\ IsValue(last.body.description)
    /\ last.body.description[2] # hangouts[last.arg].description

C14_ExplicitClearReplaces ==
    UpdateDone /\ last.result = "ok" =>
        /\ last.body.description = Value("") => hangouts[last.arg].description = ""
        /\ last.body.expected_participants = Null
              => IsNone(hangouts[last.arg].expected_participants)
        /\ last.body.description = Omitted
              => hangouts[last.arg].description = pre.hangouts[last.arg].description
        /\ last.body.expected_participants = Omitted
              => hangouts[last.arg].expected_participants
                   = pre.hangouts[last.arg].expected_participants

\* ------------------------------------------------------------------ C15
\* the ledger tables as they were when the last request began
PreOwn(op) == IF OnWishlist(op) THEN pre.wishlists ELSE pre.visits
PreOther(op) == IF OnWishlist(op) THEN pre.visits ELSE pre.wishlists
LastKey == <<last.caller, last.arg>>
AddDone == Done /\ last.op \in AddOps
RemoveDone == Done /\ last.op \in RemoveOps
ListDone == Done /\ last.op \in ListOps

\* C15: in every reachable state each ledger holds at most one row per
\* (user, pin); an add of an existing pin that runs on its own succeeds and
\* stores one row when the pair was absent, and answers AlreadyExists with the
\* store unchanged when the pair was present.
C15_AddOncePerPair ==
    /\ \A k \in Users \X PinIds : wishlists[k] <= 1 /\ visits[k] <= 1
    /\ AddDone /\ last.arg \in pre.pins =>
          IF PreOwn(last.op)[LastKey] = 0
          THEN last.result = "ok" /\ Own(last.op)[LastKey] = 1
          ELSE last.result = "AlreadyExists" /\ Store = pre
\* the second add of the same pin by the same user was refused
C15_Witness_SecondAdd ==
    /\ AddDone /\ last.result = "AlreadyExists"
    /\ PreOwn(last.op)[LastKey] = 1

\* ------------------------------------------------------------------ C16
\* C16: an add or remove on one ledger that runs on its own leaves every row
\* of the other ledger as it was, whatever its outcome.
C16_LedgersIndependent ==
    AddDone \/ RemoveDone => Other(last.op) = PreOther(last.op)
\* a user visited a pin already on their wishlist and the pin is in both ledgers
C16_Witness_PinInBoth ==
    /\ AddDone /\ last.result = "ok"
    /\ PreOther(last.op)[LastKey] = 1
    /\ wishlists[LastKey] = 1 /\ visits[LastKey] = 1

\* ------------------------------------------------------------------ C17
\* C17: a listing that runs on its own returns one entry for each row the
\* caller has in that ledger and no other entry, and the cross-reference flag
\* of the entry for pin p is true exactly when the caller has p in the other
\* ledger at the time of the call (an answer without a list carries no entry).
C17_ListIsCallersRows ==
    ListDone =>
        last.items = { [item |-> serialize_item(last.op, p, PreOther(last.op)[<<last.caller, p>>] > 0),
                        copies |-> 1] :
                       p \in {q \in PinIds : PreOwn(last.op)[<<last.caller, q>>] > 0} }
\* a listing reported a pin that is in both ledgers of the caller and in
\* neither row set of some other user
C17_Witness_BothFlagsTrue ==
    /\ ListDone /\ last.result = "ok"
    /\ \E e \in last.items : e.item.is_wishlisted /\ e.item.is_visited
    /\ \E v \in Users \ {last.caller}, p \in PinIds : Own(last.op)[<<v, p>>] = 0

\* ------------------------------------------------------------------ C18
\* C18: a successful add that runs on its own returns the flag "the caller has
\* this pin in the other ledger", as the other ledger stood during the call.
C18_AddReportsOtherLedger ==
    AddDone /\ last.result = "ok" => last.flag = (PreOther(last.op)[LastKey] > 0)
\* an add succeeded for a pin the caller does not have in the other ledger
C18_Witness_FlagFalse ==
    AddDone /\ last.result = "ok" /\ PreOther(last.op)[LastKey] = 0 /\ ~last.flag

\* ------------------------------------------------------------------ C19
\* C19: a remove that runs on its own answers "not found" and leaves the store
\* unchanged when the caller has no such row; otherwise it succeeds and the
\* store differs from before only in that row being gone, so that the pair is
\* absent for the next remove or add.
C19_RemoveDeletesItsRow ==
    RemoveDone =>
        IF PreOwn(last.op)[LastKey] = 0
        THEN last.result = "NotInLedger" /\ Store = pre
        ELSE /\ last.result = "ok"
             /\ Own(last.op) = [PreOwn(last.op) EXCEPT ![LastKey] = 0]
             /\ Other(last.op) = PreOther(last.op)
             /\ pins = pre.pins /\ hangouts = pre.hangouts
             /\ hangout_participants = pre.hangout_participants
\* a remove deleted the caller's row
C19_Witness_RowRemoved ==
    RemoveDone /\ last.result = "ok" /\ PreOwn(last.op)[LastKey] = 1 /\ Own(last.op)[LastKey] = 0

\* ------------------------------------------------------------------ C20
\* C20 as stated: every listing answers with a list.
C20_ListNeverFails ==
    last.op \in ListOps => last.result = "ok"
\* C20 amended: a listing that runs on its own answers with a non-empty list
\* when the caller has a row in that ledger and with NotFound, carrying no
\* list, when the caller has none; either way the store is unchanged.
C20_ListEmptyIsNotFound ==
    ListDone =>
        /\ Store = pre
        /\ IF \E p \in PinIds : PreOwn(last.op)[<<last.caller, p>>] > 0
           THEN last.result = "ok" /\ last.items # {}
           ELSE last.result = "NotFound" /\ last.items = {}
\* a listing by a caller who has no row in the ledger, while a pin exists, was
\* answered NotFound
C20_Witness_EmptyAfterRemove ==
    /\ ListDone /\ last.result = "NotFound"
    /\ pins # {}
    /\ \A p \in PinIds : Own(last.op)[<<last.caller, p>>] = 0

\* ------------------------------------------------------------------ C21
\* C21: when adds of the same pin by the same user on the same ledger run
\* concurrently, the one that loses the insert is answered AlreadyExists: no
\* add ends in the integrity error of a double insert.
C21_ConcurrentAddEndsTyped ==
    last.op \in AddOps => last.result # "IntegrityError"

\* ------------------------------------------------------------------ C22
\* C22: an add, on either ledger, of a pin id that no pin has is answered
\* "pin not found" and leaves the store, both ledgers included, as it was.
C22_AddUnknownPin ==
    AddDone /\ last.arg \notin pre.pins
        => last.result = "PinNotFound" /\ Store = pre
\* an add of a pin id that does not exist was refused
C22_Witness_PinNotFound ==
    /\ AddDone /\ last.arg \notin pins
    /\ last.result = "PinNotFound"

\* ------------------------------------------------------------------ C23
\* C23: after any sequence of create_hangout, join_hangout and update_hangout
\* calls, no hangout has more members than its stored max_participants, also
\* after its creator lowered max_participants.
C23_CapacityAfterUpdate ==
    \A h \in DOMAIN hangouts :
        Cardinality({u \in Users : hangout_participants[<<h, u>>] > 0})
            <= Val(hangouts[h].max_participants)

\* ------------------------------------------------------------------ C24
LoginDone == Done /\ last.op = "login"
\* the login sent the right password of an existing account
RightLogin == last.caller \in Users /\ last.flag
LockLive(entry) == entry.present /\ entry.locked

C25_CountEqualsFailures ==
    \A e \in UserIds :
        /\ login_attempts[e].present => login_attempts[e].count = failed[e]
        /\ failed[e] >= MAX_LOGIN_ATTEMPTS => LockLive(login_attempts[e])

SuspendDone == Done /\ last.op = "suspend_user"
\* the answers to the right password of a suspended account, and to a second
\* suspension, each running on its own
SuspendedLoginRejected ==
    LoginDone /\ RightLogin /\ pre.users[last.caller].is_suspended
        => /\ last.result \in {"Suspended", "Locked"}
           /\ last.result = "Locked" <=> LockLive(pre.login_attempts[last.caller])
SecondSuspendRejected ==
    (/\ SuspendDone /\ IsAdmin(last.caller) /\ last.arg \in Users
     /\ pre.users[last.arg].is_suspended)
        => last.result = "AlreadySuspended" /\ Social = pre

\* C28 as stated: the right password of a suspended account is answered 403.
C28_SuspendedLoginIs403 ==
    LoginDone /\ RightLogin /\ pre.users[last.caller].is_suspended
        => last.result = "Suspended"
\* C28 amended: is_suspended, once true, is true in every later state; a second
\* suspension is rejected and changes nothing; every later login with the
\* right password is rejected and returns no token, also after suspended_until
\* has passed: with 429 while the email is locked, else with 403.
C28_SuspensionIsPermanent ==
    /\ [](SuspendedLoginRejected /\ SecondSuspendRejected)
    /\ [][\A u \in Users : users[u].is_suspended => users'[u].is_suspended]_vars
\* the right password of a suspended account was answered 403 after
\* suspended_until had passed
C28_Witness_RejectedAfterUntil ==
    /\ LoginDone /\ RightLogin
    /\ users[last.caller].is_suspended /\ users[last.caller].until_passed
    /\ last.result = "Suspended"

\* ------------------------------------------------------------------ C27
\* C27: in every reachable state, concurrent likes included, the like_count
\* of each post equals the number of its like rows and no (user, post) pair
\* has more than one like row.
C27_LikeCountIsRows ==
    /\ \A p \in DOMAIN posts :
          posts[p].like_count = Cardinality({u \in Users : post_likes[<<u, p>>] > 0})
    /\ \A k \in Users \X PostIds : post_likes[k] <= 1

\* ------------------------------------------------------------------ C29
FollowDone == Done /\ last.op = "follow"
UnfollowDone == Done /\ last.op = "unfollow_user"
\* the store is pre except for the follow row of the last request, now n
FollowRowIs(n) == Social = [pre EXCEPT !.follows[LastKey] = n]

\* C29: in every reachable state there is at most one follow row per
\* (follower, target); a follow that runs on its own succeeds and stores the
\* row exactly when the target exists and the row was absent, an unfollow
\* that runs on its own succeeds and deletes the row exactly when the row was
\* present, and each is rejected otherwise with the store unchanged.
C29_FollowTwoStates ==
    /\ \A k \in Users \X Users : follows[k] <= 1
    /\ FollowDone =>
          IF last.arg \notin Users THEN last.result = "NotFound" /\ Social = pre
          ELSE IF pre.follows[LastKey] = 0 THEN last.result = "ok" /\ FollowRowIs(1)
          ELSE last.result = "AlreadyFollowing" /\ Social = pre
    /\ UnfollowDone =>
          IF last.arg \notin Users THEN last.result = "NotFound" /\ Social = pre
          ELSE IF pre.follows[LastKey] = 1 THEN last.result = "ok" /\ FollowRowIs(0)
          ELSE last.result = "NotFollowing" /\ Social = pre
\* a second follow of a followed target was refused
C29_Witness_SecondFollow ==
    /\ FollowDone /\ last.result = "AlreadyFollowing"
    /\ pre.follows[LastKey] = 1

\* ------------------------------------------------------------------ C30
ByIdDone == Done /\ last.op \in ByIdOps
\* the caller of the last request may read the ledgers of last.arg
MayRead == last.flag \/ last.caller = last.arg
\* the rows of user id in the listed ledger, flagged against id's other ledger
RowsOf(op, id) ==
    { [item |-> serialize_item(op, p, PreOther(op)[<<id, p>>] > 0), copies |-> 1] :
      p \in {q \in PinIds : PreOwn(op)[<<id, q>>] > 0} }

\* C30: a by-id listing answers Forbidden and returns no entry unless the
\* caller is an admin or asks for their own id; otherwise it returns the rows
\* of user id in that ledger, each flagged by whether user id (not the
\* caller) has the pin in the other ledger, and answers NotFound when user id
\* has no row; it never changes the store.
C30_ByIdOwnerOrAdmin ==
    ByIdDone =>
        /\ Store = pre
        /\ IF ~MayRead
           THEN last.result = "Forbidden" /\ last.items = {}
           ELSE /\ last.items = RowsOf(OwnListing(last.op), last.arg)
                /\ last.result = (IF last.items = {} THEN "NotFound" ELSE "ok")
\* an admin read a pin of another user that only that user has in the other
\* ledger; the same request without the admin flag is the Forbidden case
C30_Witness_AdminReadsOther ==
    /\ ByIdDone /\ last.result = "ok" /\ last.flag /\ last.caller # last.arg
    /\ \E e \in last.items :
          /\ e.item.is_wishlisted /\ e.item.is_visited
          /\ wishlists[<<last.caller, e.item.pin_id>>] = 0
          /\ visits[<<last.caller, e.item.pin_id>>] = 0

====
